---- MODULE Spec2Model ----
(***************************************************************************)
(* ElephAnt: the setup document (elephant_setup.py) and the setup binder   *)
(* (elephant_setup_binder.py) as a state machine.                          *)
(*                                                                         *)
(* Text values are sequences of one-character strings, so that the         *)
(* conversions of configparser (whitespace stripping when a file is read,  *)
(* '%' interpolation when a value is read or validated) are computed and   *)
(* not assumed.  Option names are strings; optionxform and the prefix      *)
(* removal of the binder are tables over the finite universe of names.     *)
(***************************************************************************)
EXTENDS Integers, Sequences, FiniteSets, TLC

\* ------------------------------------------------------------------ bounds
MaxDocs == 2
MaxOps == 3

\* ------------------------------------------------------------------- text
NewSetupText == <<"N","e","w"," ","S","e","t","u","p">>
NoAutText == <<"N","o"," ","A","U","T"," ","N","a","m","e">>
DashText == <<"-","-","-">>
HwText == <<"1","2","3","2","1">>
EmptyText == <<>>

\* Texts a caller or a user passes in: plain, leading blank, escaped
\* percent sign, lone percent sign, reference to an option named x.
Texts ==
  { <<"a">>, <<" ","a">>, <<"%","%">>, <<"%">>, <<"%","(","x",")","s">> }

\* Texts found in setup files that were not written by this program.
ForeignText == <<"b">>
\* 'Blank Setup', the name new_setup gives, and ' - Active'
BlankSetupText == <<"B", "l", "a", "n", "k", " ", "S", "e", "t", "u", "p">>
ActiveSuffix == <<" ", "-", " ", "A", "c", "t", "i", "v", "e">>
\* The texts a user types into a line edit of the main window
GuiTexts == { <<"a">>, <<"%">>, <<"%", "(", "x", ")", "s">> }

Range(s) == { s[i] : i \in 1..Len(s) }

\* str.strip() as used by configparser on option values read from a file
RECURSIVE LStrip(_)
LStrip(s) == IF s # <<>> /\ Head(s) = " " THEN LStrip(Tail(s)) ELSE s

RECURSIVE RStrip(_)
RStrip(s) ==
  IF s # <<>> /\ s[Len(s)] = " " THEN RStrip(SubSeq(s, 1, Len(s) - 1)) ELSE s

Strip(s) == RStrip(LStrip(s))

\* value.replace('%%', '')
RECURSIVE RemoveEscapes(_)
RemoveEscapes(s) ==
  IF Len(s) < 2 THEN s
  ELSE IF s[1] = "%" /\ s[2] = "%" THEN RemoveEscapes(SubSeq(s, 3, Len(s)))
  ELSE <<s[1]>> \o RemoveEscapes(Tail(s))

\* _KEYCRE = %\(([^)]+)\)s matched at the head of s: the index of the last
\* character of the match, 0 when there is no match.
FirstClose(s) ==
  IF \E j \in 3..Len(s) : s[j] = ")"
  THEN CHOOSE j \in 3..Len(s) :
         s[j] = ")" /\ \A i \in 3..(j - 1) : s[i] # ")"
  ELSE 0

KeyMatchEnd(s) ==
  IF Len(s) >= 5 /\ s[1] = "%" /\ s[2] = "("
  THEN LET j == FirstClose(s)
       IN IF j >= 4 /\ j < Len(s) /\ s[j + 1] = "s" THEN j + 1 ELSE 0
  ELSE 0

\* _KEYCRE.sub('', value)
RECURSIVE RemoveKeyRefs(_)
RemoveKeyRefs(s) ==
  IF s = <<>> THEN s
  ELSE LET e == KeyMatchEnd(s)
       IN IF e > 0 THEN RemoveKeyRefs(SubSeq(s, e + 1, Len(s)))
          ELSE <<s[1]>> \o RemoveKeyRefs(Tail(s))

\* BasicInterpolation.before_set: TRUE when the value is accepted, FALSE
\* when ValueError is raised.
BeforeSetOk(value) == "%" \notin Range(RemoveKeyRefs(RemoveEscapes(value)))

\* ------------------------------------------------------------------ names
Sections == {"general", "hardware"}
expected_sections == <<"general", "hardware">>

\* Option names of the model: the default schema, one spelling with capital
\* letters and one name that is in no schema.
Keys == {"setup_name", "setup_comment", "last_modified", "aut_name",
         "some_hw_attr", "nonexistent_key", "Setup_Name"}

\* ConfigParser.optionxform: str.lower
optionxform(k) == IF k = "Setup_Name" THEN "setup_name" ELSE k

\* The spelling of an option name, for %(name)s references
Spelling(k) ==
  CASE k = "setup_name" -> <<"s","e","t","u","p","_","n","a","m","e">>
    [] k = "setup_comment" ->
         <<"s","e","t","u","p","_","c","o","m","m","e","n","t">>
    [] k = "last_modified" ->
         <<"l","a","s","t","_","m","o","d","i","f","i","e","d">>
    [] k = "aut_name" -> <<"a","u","t","_","n","a","m","e">>
    [] k = "some_hw_attr" ->
         <<"s","o","m","e","_","h","w","_","a","t","t","r">>
    [] k = "nonexistent_key" ->
         <<"n","o","n","e","x","i","s","t","e","n","t","_","k","e","y">>
    [] OTHER -> <<>>

DEFAULT_SETUP ==
  [general |-> [setup_name |-> NewSetupText, setup_comment |-> EmptyText,
                last_modified |-> DashText, aut_name |-> NoAutText],
   hardware |-> [some_hw_attr |-> HwText]]

SchemaKeys == { <<s, k>> \in Sections \X Keys : k \in DOMAIN DEFAULT_SETUP[s] }

\* ---------------------------------------------------------- configparser
\* A config is a function from the names of its sections to functions from
\* option names to raw values.
EmptyConfig == [s \in {} |-> <<>>]
EmptySection == [k \in {} |-> <<>>]

has_section(c, s) == s \in DOMAIN c
add_section(c, s) == c @@ (s :> EmptySection)
has_option(c, s, k) == s \in DOMAIN c /\ optionxform(k) \in DOMAIN c[s]

\* RawConfigParser.set on an existing section
RawSet(c, s, k, v) ==
  [c EXCEPT ![s] = (optionxform(k) :> v) @@ c[s]]

\* BasicInterpolation._interpolate_some: [err, out]
RECURSIVE InterpolateSome(_, _, _)
InterpolateSome(rest, map, depth) ==
  IF depth > 10 THEN [err |-> TRUE, out |-> <<>>]
  ELSE IF rest = <<>> THEN [err |-> FALSE, out |-> <<>>]
  ELSE IF rest[1] # "%"
  THEN LET r == InterpolateSome(Tail(rest), map, depth)
       IN [err |-> r.err, out |-> <<rest[1]>> \o r.out]
  ELSE IF Len(rest) >= 2 /\ rest[2] = "%"
  THEN LET r == InterpolateSome(SubSeq(rest, 3, Len(rest)), map, depth)
       IN [err |-> r.err, out |-> <<"%">> \o r.out]
  ELSE IF Len(rest) >= 2 /\ rest[2] = "("
  THEN LET e == KeyMatchEnd(rest)
           var == SubSeq(rest, 3, e - 2)
           hit == { k \in DOMAIN map : Spelling(k) = var }
       IN IF e = 0 \/ hit = {} THEN [err |-> TRUE, out |-> <<>>]
          ELSE LET v == map[CHOOSE k \in hit : TRUE]
                   h == IF "%" \in Range(v)
                        THEN InterpolateSome(v, map, depth + 1)
                        ELSE [err |-> FALSE, out |-> v]
                   r == InterpolateSome(SubSeq(rest, e + 1, Len(rest)),
                                        map, depth)
               IN [err |-> h.err \/ r.err, out |-> h.out \o r.out]
  ELSE [err |-> TRUE, out |-> <<>>]

\* SectionWrapper.__getattr__: config.get(section, item, fallback="").
\* [raised, val]: raised when the interpolation of the stored value fails.
Interpolated(r) ==
  [raised |-> r.err, val |-> IF r.err THEN EmptyText ELSE r.out]

GetAttr(c, s, item) ==
  IF ~has_option(c, s, item) THEN [raised |-> FALSE, val |-> EmptyText]
  ELSE Interpolated(InterpolateSome(c[s][optionxform(item)], c[s], 1))

\* _load_defaults that fills the first section only
LoadDefaultsGeneral ==
  [s \in {"general"} |->
     [k \in DOMAIN DEFAULT_SETUP[s] |-> DEFAULT_SETUP[s][k]]]

\* _load_defaults that adds every key with an empty value
LoadDefaultsBlank ==
  [s \in DOMAIN DEFAULT_SETUP |->
     [k \in DOMAIN DEFAULT_SETUP[s] |-> EmptyText]]

\* ElephantSetup._load_defaults on an empty parser
LoadDefaults ==
  [s \in DOMAIN DEFAULT_SETUP |->
     [k \in DOMAIN DEFAULT_SETUP[s] |-> DEFAULT_SETUP[s][k]]]

\* RawConfigParser._write_section: under "[section]" one line per option,
\* the option name followed by " = " and the raw value.
WriteLine(value) == <<" ", "=", " ">> \o value

\* RawConfigParser.write: the file as the lines of each section
WriteFile(c) == [s \in DOMAIN c |-> [k \in DOMAIN c[s] |-> WriteLine(c[s][k])]]

\* RawConfigParser._read on one option line: what follows the name is
\* blanks, the delimiter and the value, which is stripped.  Every line of
\* the model's files has its delimiter.
ParseLine(rest) == Strip(Tail(LStrip(rest)))

\* RawConfigParser.read: the options of the file are merged into the
\* parser; names go through optionxform, values are stripped.
ReadInto(c, file) ==
  [s \in DOMAIN c \cup DOMAIN file |->
     LET old == IF s \in DOMAIN c THEN c[s] ELSE EmptySection
         new == IF s \in DOMAIN file THEN file[s] ELSE EmptySection
         names == { optionxform(k) : k \in DOMAIN new }
     IN [k \in DOMAIN old \cup names |->
           IF k \in names
           THEN ParseLine(new[CHOOSE f \in DOMAIN new : optionxform(f) = k])
           ELSE old[k]]]

\* load_setup_file, lines 121-129: inject the defaults that are missing
InjectDefaults(c) ==
  [s \in DOMAIN c \cup DOMAIN DEFAULT_SETUP |->
     LET old == IF s \in DOMAIN c THEN c[s] ELSE EmptySection
         dflt == IF s \in DOMAIN DEFAULT_SETUP
                 THEN DOMAIN DEFAULT_SETUP[s] ELSE {}
     IN [k \in DOMAIN old \cup dflt |->
           IF k \in DOMAIN old THEN old[k] ELSE DEFAULT_SETUP[s][k]]]

\* ------------------------------------------------------------------ state
DocIds == 1..MaxDocs
Paths == {"p1", "p2"}
NoPath == "None"
NoDoc == 0

\* The named attributes of the parent widget, in the order of its __dict__
WidgetOrder ==
  <<"tb_setup_name", "tb_some_hw_attr", "tb_nonexistent_key",
    "l_last_modified">>
WidgetNames == Range(WidgetOrder)

\* isinstance(widget, QLineEdit) and name.startswith("tb_")
IsLineEdit(w) == w \in {"tb_setup_name", "tb_some_hw_attr", "tb_nonexistent_key"}
\* isinstance(widget, QLabel) and name.startswith("l_")
IsLabel(w) == w = "l_last_modified"
\* name[3:] of a line edit, name[2:] of a label
SetupPath(w) ==
  CASE w = "tb_setup_name" -> "setup_name"
    [] w = "tb_some_hw_attr" -> "some_hw_attr"
    [] w = "tb_nonexistent_key" -> "nonexistent_key"
    [] w = "l_last_modified" -> "last_modified"

\* A setup file that was not written by this program: no [hardware]
\* section, a capitalised option name, a trailing blank.
ForeignFile ==
  [general |-> [Setup_Name |-> <<" ", "=", " ">> \o ForeignText \o <<" ">>]]

VARIABLES
  created,      \* the documents constructed so far
  config,       \* config[d]: the ConfigParser of document d
  path,         \* path[d]: self.path, NoPath for None
  dirty,        \* dirty[d]: self._dirty
  fs,           \* the files: a function from the existing paths to contents
  binderSetup,  \* SetupBinder.setup, NoDoc while the attribute is not set
  widgets,      \* widgets[w]: [text, listeners] of each named widget
  given,        \* the documents that were loaded or were given a save target
  recent,       \* recent[d]: where d was last loaded from or saved to with
                \* success, NoPath when it never was
  failed,       \* the documents a save of which ended with an OSError
  setup_list,   \* the global setup_list of the GUI: the open documents
  current_setup,\* logic.current_setup, NoDoc for None
  last,         \* the operation that was executed last and what it did
  ops           \* the number of operations executed

vars ==
  <<created, config, path, dirty, fs, binderSetup, widgets, given, recent,
    failed, setup_list, current_setup, last, ops>>

\* The part of the state that handlers thread through their calls: cb are
\* the invocations of the documents' callbacks, emits the value_changed
\* emissions, raised an exception that ended the handler, asked the
\* questions query_msgbox has put with their answers, calls the number of
\* close_setup calls of closeEvent, event what closeEvent did with its event.
World ==
  [config |-> config, dirty |-> dirty, widgets |-> widgets,
   cb |-> <<>>, emits |-> 0, raised |-> FALSE,
   setup_list |-> setup_list, current_setup |-> current_setup,
   binderSetup |-> binderSetup, asked |-> <<>>, calls |-> 0, event |-> ""]

NoLast ==
  [op |-> "init", doc |-> NoDoc, sec |-> "", key |-> "", text |-> <<>>,
   target |-> NoPath, io |-> "", widget |-> "", ok |-> TRUE, ret |-> "None",
   cb |-> <<>>, emits |-> 0, wasDirty |-> FALSE, wasPath |-> NoPath,
   wasFresh |-> FALSE, replaced |-> NoDoc, wrote |-> NoPath,
   crash |-> FALSE, asked |-> <<>>, calls |-> 0, event |-> "",
   wasList |-> <<>>, wasCurrent |-> NoDoc, wasBinder |-> NoDoc]

\* ElephantSetup._set_dirty
SetDirty(W, d) ==
  LET V == [W EXCEPT !.dirty[d] = TRUE]
  IN [V EXCEPT !.cb = Append(@, [doc |-> d, dirty |-> V.dirty[d],
                                 config |-> V.config[d]])]

\* ElephantSetup._set_clean
SetClean(W, d) ==
  LET V == [W EXCEPT !.dirty[d] = FALSE]
  IN [V EXCEPT !.cb = Append(@, [doc |-> d, dirty |-> V.dirty[d],
                                 config |-> V.config[d]])]

\* SectionWrapper.__setattr__ of section s of document d
SetAttr(W, d, s, key, value) ==
  LET c0 == W.config[d]
      c1 == IF has_section(c0, s) THEN c0 ELSE add_section(c0, s)
  IN IF ~BeforeSetOk(value)
     THEN [W EXCEPT !.config[d] = c1, !.raised = TRUE]
     ELSE SetDirty([W EXCEPT !.config[d] = RawSet(c1, s, key, value)], d)

\* ----------------------------------------------------------------- binder
\* The slots connected to textChanged of a line edit, in connection order:
\* update_setup(text) of bind_line_edit with its captured section and path.
\* update_setup after its setattr: value_changed is emitted unless the
\* write raised
EmitValueChanged(W) == IF W.raised THEN W ELSE [W EXCEPT !.emits = @ + 1]

RECURSIVE FireListeners(_, _, _)
FireListeners(W, ls, text) ==
  IF ls = <<>> \/ W.raised THEN W
  ELSE FireListeners(
         EmitValueChanged(
           SetAttr(W, Head(ls).doc, Head(ls).section, Head(ls).path, text)),
         Tail(ls), text)

\* QLineEdit.setText / QLabel.setText: textChanged is emitted when the text
\* changes.
SetText(W, w, text) ==
  IF W.widgets[w].text = text THEN W
  ELSE FireListeners([W EXCEPT !.widgets[w].text = text],
                     W.widgets[w].listeners, text)

\* hasattr(section, path): SectionWrapper.__getattr__ never raises
\* AttributeError, so the answer is True whenever the read does not raise.
HasAttr(c, s, item) == TRUE

\* textChanged.connect(update_setup) of bind_line_edit, after its setText
Connect(W, w, l) ==
  IF W.raised THEN W ELSE [W EXCEPT !.widgets[w].listeners = Append(@, l)]

\* SetupBinder.bind_line_edit, from the i-th expected section on
RECURSIVE BindLineEdit(_, _, _, _, _)

\* bind_line_edit at the i-th expected section, g being what
\* getattr(section, path) gives there
BindLineEditAt(W, d, w, item, i, g) ==
  IF g.raised THEN [W EXCEPT !.raised = TRUE]
  ELSE IF HasAttr(W.config[d], expected_sections[i], item)
  THEN Connect(SetText(W, w, g.val), w,
               [doc |-> d, section |-> expected_sections[i], path |-> item])
  ELSE BindLineEdit(W, d, w, item, i + 1)

BindLineEdit(W, d, w, item, i) ==
  IF i > Len(expected_sections) \/ W.raised THEN W
  ELSE BindLineEditAt(W, d, w, item, i,
                      GetAttr(W.config[d], expected_sections[i], item))

\* SetupBinder.bind_label, from the i-th expected section on
RECURSIVE BindLabel(_, _, _, _, _)

\* bind_label at the i-th expected section, g being what
\* getattr(section, path) gives there
BindLabelAt(W, d, w, item, i, g) ==
  IF g.raised THEN [W EXCEPT !.raised = TRUE]
  ELSE IF HasAttr(W.config[d], expected_sections[i], item)
  THEN SetText(W, w, g.val)
  ELSE BindLabel(W, d, w, item, i + 1)

BindLabel(W, d, w, item, i) ==
  IF i > Len(expected_sections) \/ W.raised THEN W
  ELSE BindLabelAt(W, d, w, item, i,
                   GetAttr(W.config[d], expected_sections[i], item))

\* SetupBinder.bind_widgets, from the i-th widget on
RECURSIVE BindWidgetsFrom(_, _, _)
BindWidgetsFrom(W, d, i) ==
  IF i > Len(WidgetOrder) \/ W.raised THEN W
  ELSE BindWidgetsFrom(
         IF IsLineEdit(WidgetOrder[i])
         THEN BindLineEdit(W, d, WidgetOrder[i], SetupPath(WidgetOrder[i]), 1)
         ELSE IF IsLabel(WidgetOrder[i])
         THEN BindLabel(W, d, WidgetOrder[i], SetupPath(WidgetOrder[i]), 1)
         ELSE W,
         d, i + 1)

bind_widgets(W, d) == BindWidgetsFrom(W, d, 1)

\* unbind_widgets that disconnects nothing
UnbindNothing(W) == W

\* SetupBinder.unbind_widgets: widget.disconnect() on every line edit and
\* label removes every connection of its signals.
unbind_widgets(W) ==
  [W EXCEPT !.widgets =
     [w \in WidgetNames |->
        IF IsLineEdit(w) \/ IsLabel(w)
        THEN [W.widgets[w] EXCEPT !.listeners = <<>>]
        ELSE W.widgets[w]]]

\* The listener bound to (section, key) of document d
Listener(d, s, k) == [doc |-> d, section |-> s, path |-> k]

\* -------------------------------------------------------------- main window
\* MainWindow.update_ui_setup_list: the name of every setup of setup_list
\* is read for its tree item; a read that raises ends the handler.
update_ui_setup_list(W) ==
  IF W.raised THEN W
  ELSE [W EXCEPT !.raised =
          \E i \in 1..Len(W.setup_list) :
            GetAttr(W.config[W.setup_list[i]], "general", "setup_name").raised]

\* MainWindow.update_setup_status, the callback of every setup the window
\* constructs, for the invocations W.cb records: the tree is refreshed
\* with the state the handler has reached.
update_setup_status(W) ==
  IF W.cb = <<>> THEN W ELSE update_ui_setup_list(W)

\* MainWindow.change_active_setup(new_setup), NoDoc for None
change_active_setup(W, d) ==
  IF d = NoDoc THEN update_ui_setup_list([W EXCEPT !.current_setup = d])
  ELSE IF GetAttr(W.config[d], "general", "setup_name").raised
  THEN \* the argument of logger.info
       [W EXCEPT !.current_setup = d, !.raised = TRUE]
  ELSE update_ui_setup_list(
         bind_widgets(
           unbind_widgets([W EXCEPT !.current_setup = d, !.binderSetup = d]),
           d))

\* list.remove(x): the list without the first element equal to x
ListRemove(l, x) ==
  LET i == CHOOSE j \in 1..Len(l) :
             l[j] = x /\ \A k \in 1..(j - 1) : l[k] # x
  IN SubSeq(l, 1, i - 1) \o SubSeq(l, i + 1, Len(l))

\* setup_list.remove(current_setup) of close_setup: the ValueError raised
\* when the setup is not in the list is caught
RemoveCurrent(W) ==
  IF W.current_setup \in Range(W.setup_list)
  THEN [W EXCEPT !.setup_list = ListRemove(@, W.current_setup)]
  ELSE W

\* The last lines of close_setup: the last setup of the list becomes the
\* active one, None when the list is empty
ActivateLast(W) ==
  change_active_setup(W, IF Len(W.setup_list) = 0 THEN NoDoc
                         ELSE W.setup_list[Len(W.setup_list)])

\* query_msgbox of close_setup about document d, answered with yes
Asked(W, d, yes) == [W EXCEPT !.asked = Append(@, [doc |-> d, yes |-> yes])]

\* close_setup that asks no question
CloseSetupUnasked(W, ans) ==
  IF Len(W.setup_list) = 0 THEN W
  ELSE IF W.current_setup = NoDoc THEN [W EXCEPT !.raised = TRUE]
  ELSE ActivateLast(RemoveCurrent(W))

\* close_setup that leaves the removed setup the active one
CloseSetupStale(W, ans) ==
  IF Len(W.setup_list) = 0 THEN W
  ELSE IF W.current_setup = NoDoc THEN [W EXCEPT !.raised = TRUE]
  ELSE IF ~W.dirty[W.current_setup] THEN RemoveCurrent(W)
  ELSE IF ~ans[W.current_setup]
  THEN Asked(W, W.current_setup, ans[W.current_setup])
  ELSE RemoveCurrent(Asked(W, W.current_setup, ans[W.current_setup]))

\* MainWindow.close_setup; ans[d] is the answer the user gives when asked
\* whether to close d without saving
close_setup(W, ans) ==
  IF Len(W.setup_list) = 0 THEN W
  ELSE IF W.current_setup = NoDoc
  THEN \* None has no attribute is_dirty
       [W EXCEPT !.raised = TRUE]
  ELSE IF ~W.dirty[W.current_setup] THEN ActivateLast(RemoveCurrent(W))
  ELSE IF GetAttr(W.config[W.current_setup], "general", "setup_name").raised
  THEN [W EXCEPT !.raised = TRUE]
  ELSE IF ~ans[W.current_setup]
  THEN Asked(W, W.current_setup, ans[W.current_setup])
  ELSE ActivateLast(
         RemoveCurrent(Asked(W, W.current_setup, ans[W.current_setup])))

\* The loop of MainWindow.closeEvent with setup_list_len = n
RECURSIVE CloseLoop(_, _, _)

\* closeEvent that accepts its event whatever close_setup did
AfterCloseAccepting(W, ans, n) == [W EXCEPT !.event = "accept"]

\* The body of the loop after its close_setup call has left W
AfterClose(W, ans, n) ==
  IF W.raised THEN W
  ELSE IF Len(W.setup_list) = n THEN [W EXCEPT !.event = "ignore"]
  ELSE CloseLoop(W, ans, Len(W.setup_list))

CloseLoop(W, ans, n) ==
  IF n = 0 THEN [W EXCEPT !.event = "accept"]
  ELSE AfterClose([close_setup(W, ans) EXCEPT !.calls = @ + 1], ans, n)

\* MainWindow.closeEvent(event)
closeEvent(W, ans) == CloseLoop(W, ans, Len(W.setup_list))

\* The text of the i-th top-level item of the tree, as
\* update_ui_setup_list has set it
ItemText(W, i) ==
  LET d == W.setup_list[i]
      name == GetAttr(W.config[d], "general", "setup_name").val
      star == IF W.dirty[d] THEN <<"*">> ELSE <<>>
  IN IF d = W.current_setup THEN name \o star \o ActiveSuffix
     ELSE name \o star

\* str.replace('*', '')
RECURSIVE RemoveStars(_)
RemoveStars(t) ==
  IF t = <<>> THEN t
  ELSE IF t[1] = "*" THEN RemoveStars(Tail(t))
  ELSE <<t[1]>> \o RemoveStars(Tail(t))

\* The loop of setup_double_clicked from the j-th setup on: the first
\* setup whose name is text becomes the active one
RECURSIVE ActivateByName(_, _, _)

\* The body of that loop at the j-th setup, g being its name
ActivateIfNamed(W, text, j, g) ==
  IF g.raised THEN [W EXCEPT !.raised = TRUE]
  ELSE IF g.val = text THEN change_active_setup(W, W.setup_list[j])
  ELSE ActivateByName(W, text, j + 1)

ActivateByName(W, text, j) ==
  IF j > Len(W.setup_list) THEN W
  ELSE ActivateIfNamed(W, text, j,
         GetAttr(W.config[W.setup_list[j]], "general", "setup_name"))

\* MainWindow.setup_double_clicked on the i-th top-level item
setup_double_clicked(W, i) ==
  ActivateByName(W, RemoveStars(ItemText(W, i)), 1)

\* ---------------------------------------------------------------- actions
\* The documents and widgets when the program starts: one or two documents
\* have been constructed, no widget shows a text or has a slot connected.
InitWorld ==
  [config |-> [d \in DocIds |-> IF d \in created THEN LoadDefaults
                                ELSE EmptyConfig],
   dirty |-> [d \in DocIds |-> FALSE],
   widgets |-> [w \in WidgetNames |-> [text |-> EmptyText, listeners |-> <<>>]],
   cb |-> <<>>, emits |-> 0, raised |-> FALSE,
   setup_list |-> <<>>, current_setup |-> NoDoc,
   binderSetup |-> NoDoc, asked |-> <<>>, calls |-> 0, event |-> ""]

\* SetupBinder.__init__(parent, setup): with setup None nothing is bound
\* and the attribute setup is not set, otherwise bind_widgets() runs.
BinderInit(W, d) == IF d = NoDoc THEN W ELSE bind_widgets(W, d)

\* The states after construction: the documents of one of the sets in
\* docSets exist, the binder was constructed with one of the setups in
\* setups (NoDoc: without a setup).
InitWith(docSets, setups) ==
  /\ created \in docSets
  /\ given = {}
  /\ recent = [d \in DocIds |-> NoPath]
  /\ failed = {}
  /\ path = [d \in DocIds |-> NoPath]
  /\ fs = ("p1" :> ForeignFile)
  /\ binderSetup \in setups
  /\ setup_list = <<>>
  /\ current_setup = NoDoc
  /\ LET W == BinderInit(InitWorld, binderSetup)
     IN /\ config = W.config
        /\ dirty = W.dirty
        /\ widgets = W.widgets
  /\ last = [NoLast EXCEPT !.op = "construct", !.doc = 1]
  /\ ops = 0

\* Document d is as ElephantSetup.__init__ leaves it
IsFresh(d) ==
  d \in created /\ config[d] = LoadDefaults /\ path[d] = NoPath /\ ~dirty[d]

\* What an operation on document d leaves in `last`
Did(op, d, W) ==
  [NoLast EXCEPT !.op = op, !.doc = d, !.ok = ~W.raised,
                 !.cb = W.cb, !.emits = W.emits,
                 !.wasDirty = IF d = NoDoc THEN FALSE ELSE dirty[d],
                 !.wasPath = IF d = NoDoc THEN NoPath ELSE path[d],
                 !.wasFresh = d # NoDoc /\ IsFresh(d),
                 !.replaced = IF op = "set_setup" THEN binderSetup
                              ELSE last.replaced]

\* The state a handler leaves behind
Becomes(W) ==
  /\ config' = W.config
  /\ dirty' = W.dirty
  /\ widgets' = W.widgets
  /\ ops' = ops + 1

\* ElephantSetup.__init__
Construct(d) ==
  /\ ops < MaxOps
  /\ d \notin created
  /\ created' = created \cup {d}
  /\ config' = [config EXCEPT ![d] = LoadDefaults]
  /\ path' = [path EXCEPT ![d] = NoPath]
  /\ dirty' = [dirty EXCEPT ![d] = FALSE]
  /\ last' = [Did("construct", d, World) EXCEPT !.wasDirty = FALSE]
  /\ ops' = ops + 1
  /\ recent' = [recent EXCEPT ![d] = NoPath]
  /\ UNCHANGED <<fs, binderSetup, widgets, given, failed>>
  /\ UNCHANGED <<setup_list, current_setup>>

\* setattr(setup.<section>, key, value): SectionWrapper.__setattr__
Set(d, s, key, value) ==
  /\ ops < MaxOps
  /\ d \in created
  /\ LET W == SetAttr(World, d, s, key, value)
     IN /\ Becomes(W)
        /\ last' = [Did("set", d, W) EXCEPT !.sec = s, !.key = key,
                                           !.text = value]
  /\ UNCHANGED <<created, path, fs, binderSetup, given, recent, failed>>
  /\ UNCHANGED <<setup_list, current_setup>>

\* load_setup_file that remembers the source before it looks for the file
LoadPathEarly(d, p) == p

\* load_setup_file that does not remember the source
LoadPathKeep(d, p) == path[d]

\* The remembered location after load_setup_file(p), lines 114-118
LoadPath(d, p) == IF p \in DOMAIN fs THEN p ELSE path[d]

\* ElephantSetup.load_setup_file(p)
Load(d, p) ==
  /\ ops < MaxOps
  /\ d \in created
  /\ path' = [path EXCEPT ![d] = LoadPath(d, p)]
  /\ IF p \notin DOMAIN fs
     THEN \* os.path.isfile(path) is False: return False
          /\ last' = [Did("load", d, World) EXCEPT !.target = p, !.ok = FALSE,
                                                  !.ret = "False"]
          /\ ops' = ops + 1
          /\ UNCHANGED <<config, dirty, widgets, given, recent>>
     ELSE LET c == InjectDefaults(ReadInto(config[d], fs[p]))
              W == SetClean([World EXCEPT !.config[d] = c], d)
          IN /\ Becomes(W)
             /\ given' = given \cup {d}
             /\ recent' = [recent EXCEPT ![d] = p]
             /\ last' = [Did("load", d, W) EXCEPT !.target = p]
  /\ UNCHANGED <<created, fs, binderSetup, failed>>
  /\ UNCHANGED <<setup_list, current_setup>>

\* The ways open / write / close of the target file can end
SaveOutcomes == {"ok", "open_fails", "write_fails", "close_fails"}

\* EffectivePath with a default file name in place of the NoTarget failure
EffectivePathDefault(d, target) ==
  IF target # NoPath THEN target
  ELSE IF path[d] # NoPath THEN path[d]
  ELSE "p2"

\* save_setup_file, lines 143-152: the path the save goes to, NoPath when
\* neither a target is given nor a location is remembered
EffectivePath(d, target) ==
  IF target # NoPath THEN target
  ELSE IF path[d] # NoPath THEN path[d]
  ELSE NoPath

\* ElephantSetup.save_setup_file(target); target = NoPath is path=None
Save(d, target, outcome) ==
  /\ ops < MaxOps
  /\ d \in created
  /\ given' = IF target # NoPath THEN given \cup {d} ELSE given
  /\ recent' = IF target # NoPath /\ outcome = "ok"
               THEN [recent EXCEPT ![d] = target] ELSE recent
  /\ failed' = IF outcome = "ok" THEN failed ELSE failed \cup {d}
  /\ LET save_path == EffectivePath(d, target)
     IN IF save_path = NoPath
        THEN \* No path specified: return False
             /\ outcome = "ok"
             /\ last' = [Did("save", d, World) EXCEPT !.ok = FALSE,
                                                     !.ret = "False"]
             /\ ops' = ops + 1
             /\ UNCHANGED <<config, path, dirty, widgets, fs>>
        ELSE LET \* _set_clean() runs inside the with block, after write()
                 \* and before the file is closed
                 W == IF outcome \in {"ok", "close_fails"}
                      THEN SetClean(World, d) ELSE World
             IN /\ Becomes(W)
                \* self.path = path is assigned before the file is opened
                /\ path' = [path EXCEPT ![d] = save_path]
                /\ fs' = CASE outcome = "ok" ->
                                (save_path :> WriteFile(config[d])) @@ fs
                           [] outcome = "open_fails" -> fs
                           [] OTHER -> (save_path :> EmptyConfig) @@ fs
                /\ last' = [Did("save", d, W) EXCEPT
                              !.target = target, !.io = outcome,
                              !.wrote = save_path,
                              !.ok = (outcome = "ok"),
                              !.ret = IF outcome = "ok" THEN "True"
                                      ELSE "False"]
  /\ UNCHANGED <<created, binderSetup>>
  /\ UNCHANGED <<setup_list, current_setup>>

\* SetupBinder.set_setup(new_setup)
SetSetup(d) ==
  /\ ops < MaxOps
  /\ d \in created
  /\ binderSetup' = d
  /\ LET W == bind_widgets(unbind_widgets(World), d)
     IN /\ Becomes(W)
        /\ last' = Did("set_setup", d, W)
  /\ UNCHANGED <<created, path, fs, given, recent, failed>>
  /\ UNCHANGED <<setup_list, current_setup>>

\* SetupBinder.bind_widgets() called on its own
BindWidgets ==
  /\ ops < MaxOps
  /\ binderSetup # NoDoc
  /\ LET W == bind_widgets(World, binderSetup)
     IN /\ Becomes(W)
        /\ last' = Did("bind_widgets", binderSetup, W)
  /\ UNCHANGED <<created, path, fs, binderSetup, given, recent, failed>>
  /\ UNCHANGED <<setup_list, current_setup>>

\* SetupBinder.unbind_widgets() called on its own
UnbindWidgets ==
  /\ ops < MaxOps
  /\ LET W == unbind_widgets(World)
     IN /\ Becomes(W)
        /\ last' = Did("unbind_widgets", NoDoc, W)
  /\ UNCHANGED <<created, path, fs, binderSetup, given, recent, failed>>
  /\ UNCHANGED <<setup_list, current_setup>>

\* The user changes the text of line edit w to text: textChanged(text)
Edit(w, text) ==
  /\ ops < MaxOps
  /\ IsLineEdit(w)
  /\ widgets[w].text # text
  /\ LET W == SetText(World, w, text)
     IN /\ Becomes(W)
        /\ last' = [Did("edit", NoDoc, W) EXCEPT !.widget = w, !.text = text]
  /\ UNCHANGED <<created, path, fs, binderSetup, given, recent, failed>>
  /\ UNCHANGED <<setup_list, current_setup>>

\* The section accessors a caller writes through
SetTargets == { <<"general", "Setup_Name">>, <<"hardware", "some_hw_attr">> }

\* ------------------------------------------------- main window actions
\* The window handles events while it is open and no handler has ended
\* with an unhandled exception (PyQt then aborts the program).
GuiAlive == ops < MaxOps /\ ~last.crash /\ last.event # "accept"

\* The document the next ElephantSetup(...) call constructs
NewDoc == Cardinality(created) + 1

\* What a handler of the main window leaves in `last`
GuiDid(op, d, W) ==
  [Did(op, d, W) EXCEPT !.crash = W.raised, !.asked = W.asked,
                        !.calls = W.calls, !.event = W.event,
                        !.wasList = setup_list,
                        !.wasCurrent = current_setup,
                        !.wasBinder = binderSetup]

\* The state a handler of the main window leaves behind
GuiBecomes(W) ==
  /\ Becomes(W)
  /\ setup_list' = W.setup_list
  /\ current_setup' = W.current_setup
  /\ binderSetup' = W.binderSetup

\* The state and the record a handler leaves that ended by saving document
\* d of W0 into save_path (into nothing when it is NoPath)
Saved(op, W0, W, d, target, outcome, save_path, saving) ==
  /\ GuiBecomes(W)
  /\ path' = IF save_path # NoPath THEN [path EXCEPT ![d] = save_path]
             ELSE path
  /\ fs' = CASE save_path = NoPath -> fs
             [] outcome = "ok" -> (save_path :> WriteFile(W0.config[d])) @@ fs
             [] outcome = "open_fails" -> fs
             [] OTHER -> (save_path :> EmptyConfig) @@ fs
  /\ given' = IF saving /\ target # NoPath THEN given \cup {d} ELSE given
  /\ recent' = IF save_path # NoPath /\ target # NoPath /\ outcome = "ok"
               THEN [recent EXCEPT ![d] = target] ELSE recent
  /\ failed' = IF outcome = "ok" THEN failed ELSE failed \cup {d}
  /\ last' = [GuiDid(op, d, W) EXCEPT
                !.target = target, !.io = outcome, !.wrote = save_path,
                !.ok = save_path # NoPath /\ outcome = "ok" /\ ~W.raised,
                !.ret = IF ~saving THEN "None"
                        ELSE IF save_path # NoPath /\ outcome = "ok"
                        THEN "True" ELSE "False"]

\* current_setup.save_setup_file(target) into save_path
SaveInto(op, W, target, outcome, save_path, saving) ==
  /\ save_path # NoPath \/ outcome = "ok"
  /\ Saved(op, W,
           IF save_path # NoPath /\ outcome \in {"ok", "close_fails"}
           THEN update_setup_status(SetClean(W, W.current_setup)) ELSE W,
           W.current_setup, target, outcome, save_path, saving)

\* A handler that ends in current_setup.save_setup_file(target) when saving
\* holds, and in nothing more otherwise
EndWithSave(op, W, saving, target, outcome) ==
  SaveInto(op, W, target, outcome,
           IF saving THEN EffectivePath(W.current_setup, target) ELSE NoPath,
           saving)

\* save_setup_dialog at the end of new_setup; nothing is saved when the
\* handler has raised, when no setup is the current one, or when the
\* dialog is cancelled
NewSetupSave(W, choice, outcome) ==
  EndWithSave("new_setup", W,
              ~W.raised /\ W.current_setup # NoDoc /\ choice # NoPath,
              choice, outcome)

\* setup_list.append(setup); change_active_setup(setup_list[-1]), unless
\* the handler has raised before
AppendAndActivate(W, d) ==
  IF W.raised THEN W
  ELSE change_active_setup([W EXCEPT !.setup_list = Append(@, d)], d)

\* MainWindow.new_setup; choice is the file chosen in the Save Setup
\* dialog, NoPath when the dialog is cancelled
NewSetup(choice, outcome) ==
  /\ GuiAlive
  /\ NewDoc \in DocIds
  /\ created' = created \cup {NewDoc}
  /\ NewSetupSave(
       AppendAndActivate(
         update_setup_status(
           SetAttr([World EXCEPT !.config[NewDoc] = LoadDefaults,
                                 !.dirty[NewDoc] = FALSE],
                   NewDoc, "general", "setup_name", BlankSetupText)),
         NewDoc),
       choice, outcome)

\* The state and the record open_setup_dialog leaves when it has loaded
\* choice into document d
Opened(W, d, choice) ==
  /\ GuiBecomes(W)
  /\ path' = [path EXCEPT ![d] = LoadPath(d, choice)]
  /\ given' = given \cup {d}
  /\ recent' = [recent EXCEPT ![d] = choice]
  /\ last' = [GuiDid("open_setup_dialog", d, W) EXCEPT !.target = choice]

\* The state and the record open_setup_dialog leaves when it has opened
\* nothing; constructs holds when a setup was constructed for the load
NotOpened(W, choice, constructs) ==
  /\ GuiBecomes(W)
  /\ last' = [GuiDid("open_setup_dialog", NoDoc, W) EXCEPT
                !.target = choice, !.ok = FALSE,
                !.ret = IF constructs THEN "False" ELSE "None"]
  /\ UNCHANGED <<path, given, recent>>

\* Some setup of setup_list has the path choice
IsOpen(choice) == \E i \in 1..Len(setup_list) : path[setup_list[i]] = choice

\* MainWindow.open_setup_dialog; choice is the file chosen, NoPath when the
\* dialog is cancelled
OpenSetupDialog(choice) ==
  /\ GuiAlive
  /\ IF choice = NoPath \/ IsOpen(choice)
     THEN /\ NotOpened(World, choice, FALSE)
          /\ UNCHANGED created
     ELSE /\ NewDoc \in DocIds
          /\ created' = created \cup {NewDoc}
          /\ IF choice \notin DOMAIN fs
             THEN NotOpened([World EXCEPT !.config[NewDoc] = LoadDefaults,
                                          !.dirty[NewDoc] = FALSE],
                            choice, TRUE)
             ELSE Opened(
                    AppendAndActivate(
                      update_setup_status(
                        SetClean(
                          [World EXCEPT
                             !.config[NewDoc] =
                                InjectDefaults(
                                  ReadInto(LoadDefaults, fs[choice])),
                             !.dirty[NewDoc] = FALSE],
                          NewDoc)),
                      NewDoc),
                    NewDoc, choice)
  /\ UNCHANGED <<fs, failed>>

\* The state and the record a handler leaves that touched no file
Handled(op, d, W) ==
  /\ GuiBecomes(W)
  /\ last' = GuiDid(op, d, W)
  /\ UNCHANGED <<created, path, fs, given, recent, failed>>

\* MainWindow.setup_double_clicked on the i-th top-level item of the tree
SetupDoubleClicked(i) ==
  /\ GuiAlive
  /\ i \in 1..Len(setup_list)
  /\ Handled("setup_double_clicked", setup_list[i],
             setup_double_clicked(World, i))

\* MainWindow.close_setup; yes is the answer to the question, if asked
CloseSetup(yes) ==
  /\ GuiAlive
  /\ Handled("close_setup", current_setup,
             close_setup(World, [d \in DocIds |-> yes]))

\* MainWindow.closeEvent; ans[d] is the answer to the question about d
CloseEvent(ans) ==
  /\ GuiAlive
  /\ Handled("closeEvent", current_setup, closeEvent(World, ans))

\* MainWindow.save_setup
SaveSetup(outcome) ==
  /\ GuiAlive
  /\ EndWithSave("save_setup", World, current_setup # NoDoc, NoPath, outcome)
  /\ UNCHANGED created

\* MainWindow.save_setup_dialog; choice is the file chosen, NoPath when the
\* dialog is cancelled
SaveSetupDialog(choice, outcome) ==
  /\ GuiAlive
  /\ EndWithSave("save_setup_dialog", World,
                 current_setup # NoDoc /\ choice # NoPath, choice, outcome)
  /\ UNCHANGED created

\* The state and the record an edit of line edit w leaves
Edited(w, text, W) ==
  /\ GuiBecomes(W)
  /\ last' = [GuiDid("edit_field", NoDoc, W) EXCEPT
                !.widget = w, !.text = text]
  /\ UNCHANGED <<created, path, fs, given, recent, failed>>

\* The user changes the text of line edit w of the main window
EditField(w, text) ==
  /\ GuiAlive
  /\ IsLineEdit(w)
  /\ widgets[w].text # text
  /\ Edited(w, text, update_setup_status(SetText(World, w, text)))

Next ==
  \/ \E d \in DocIds : Construct(d)
  \/ \E d \in DocIds, t \in SetTargets, v \in Texts : Set(d, t[1], t[2], v)
  \/ \E d \in DocIds, p \in Paths : Load(d, p)
  \/ \E d \in DocIds, p \in Paths \cup {NoPath}, o \in SaveOutcomes :
       Save(d, p, o)
  \/ \E d \in DocIds : SetSetup(d)
  \/ BindWidgets
  \/ UnbindWidgets
  \/ \E w \in WidgetNames, v \in Texts : Edit(w, v)

Init == InitWith({{1}, {1, 2}}, {NoDoc, 1})

Spec == Init /\ [][Next]_vars

\* The document alone: construction, section accessors, load and save
InitDoc == InitWith({{1}, {1, 2}}, {NoDoc})

NextDoc ==
  \/ \E d \in DocIds : Construct(d)
  \/ \E d \in DocIds, t \in SetTargets, v \in Texts : Set(d, t[1], t[2], v)
  \/ \E d \in DocIds, p \in Paths : Load(d, p)
  \/ \E d \in DocIds, p \in Paths \cup {NoPath}, o \in SaveOutcomes :
       Save(d, p, o)

SpecDoc == InitDoc /\ [][NextDoc]_vars

\* The binder over documents that are constructed, written and loaded
InitBinder == InitWith({{1}}, {NoDoc, 1})

NextBinder ==
  \/ \E d \in DocIds : Construct(d)
  \/ \E d \in DocIds, t \in SetTargets, v \in Texts : Set(d, t[1], t[2], v)
  \/ \E d \in DocIds, p \in Paths : Load(d, p)
  \/ \E d \in DocIds : SetSetup(d)
  \/ BindWidgets
  \/ UnbindWidgets
  \/ \E w \in WidgetNames, v \in Texts : Edit(w, v)

SpecBinder == InitBinder /\ [][NextBinder]_vars

\* The main window: no setup is open when it is shown, the binder was
\* constructed without a setup
InitGui ==
  /\ created = {}
  /\ given = {}
  /\ recent = [d \in DocIds |-> NoPath]
  /\ failed = {}
  /\ path = [d \in DocIds |-> NoPath]
  /\ fs = ("p1" :> ForeignFile)
  /\ binderSetup = NoDoc
  /\ setup_list = <<>>
  /\ current_setup = NoDoc
  /\ config = InitWorld.config
  /\ dirty = InitWorld.dirty
  /\ widgets = InitWorld.widgets
  /\ last = NoLast
  /\ ops = 0

NextGui ==
  \/ \E p \in Paths \cup {NoPath}, o \in SaveOutcomes : NewSetup(p, o)
  \/ \E p \in Paths \cup {NoPath} : OpenSetupDialog(p)
  \/ \E i \in DocIds : SetupDoubleClicked(i)
  \/ \E yes \in BOOLEAN : CloseSetup(yes)
  \/ \E ans \in [DocIds -> BOOLEAN] : CloseEvent(ans)
  \/ \E o \in SaveOutcomes : SaveSetup(o)
  \/ \E p \in Paths \cup {NoPath}, o \in SaveOutcomes : SaveSetupDialog(p, o)
  \/ \E w \in WidgetNames, t \in GuiTexts : EditField(w, t)

SpecGui == InitGui /\ [][NextGui]_vars

\* ----------------------------------------------------------------- claims
SaveFailures == {"open_fails", "write_fails", "close_fails"}
BindOps == {"set_setup", "bind_widgets"}

\* The file has an option that reads as key k of section s
FileHas(file, s, k) ==
  s \in DOMAIN file /\ \E f \in DOMAIN file[s] : optionxform(f) = k

\* The first of the expected sections of config c that contains option k,
\* "" when no section contains it
FirstContaining(c, k) ==
  IF \E i \in 1..Len(expected_sections) : has_option(c, expected_sections[i], k)
  THEN expected_sections[
         CHOOSE i \in 1..Len(expected_sections) :
           /\ has_option(c, expected_sections[i], k)
           /\ \A j \in 1..(i - 1) : ~has_option(c, expected_sections[j], k)]
  ELSE ""

\* C1: a freshly constructed document and a document right after a
\* successful load are clean; a write through a section accessor makes the
\* document dirty; a successful save makes it clean; and a dirty document
\* becomes clean only by a save or a load of it that succeeds.
C1_DirtyLifeCycle ==
  /\ \A d \in created : ~dirty[d]
  /\ [][ /\ (last'.op = "construct" => ~dirty'[last'.doc])
         /\ (last'.op = "load" /\ last'.ok => ~dirty'[last'.doc])
         /\ (last'.op = "set" /\ last'.ok => dirty'[last'.doc])
         /\ (last'.op = "save" /\ last'.ok => ~dirty'[last'.doc])
         /\ \A d \in DocIds :
              dirty[d] /\ ~dirty'[d] =>
                last'.doc = d /\ last'.op \in {"load", "save"} /\ last'.ok
     ]_vars

\* C2: after a successful load, whatever the document was before, every
\* key of the default schema that the source file lacks reads as its
\* default value, and the document is clean.
C2_LoadRepair ==
  (last.op = "load" /\ last.ok) =>
    /\ ~dirty[last.doc]
    /\ \A sk \in SchemaKeys :
         ~FileHas(fs[last.target], sk[1], sk[2]) =>
           GetAttr(config[last.doc], sk[1], sk[2]) =
             [raised |-> FALSE, val |-> DEFAULT_SETUP[sk[1]][sk[2]]]

\* C3: a save that fails with an OSError (while the file is opened,
\* written or closed) leaves the dirty flag as it was before the call.
C3_FailedSaveKeepsDirty ==
  (last.op = "save" /\ last.io \in SaveFailures) =>
    dirty[last.doc] = last.wasDirty

\* C4: a save that fails with an OSError leaves the remembered location
\* as it was before the call.
C4_FailedSaveKeepsPath ==
  (last.op = "save" /\ last.io \in SaveFailures) =>
    path[last.doc] = last.wasPath

\* C5: save_setup_file() without a target, on a document that was never
\* loaded and was never given a save target, returns False, writes no file,
\* changes neither the dirty flag nor the remembered location nor any
\* value, and does not invoke the callback.
C5_SaveWithoutTarget ==
  [][ (last'.op = "save" /\ last'.target = NoPath /\ last'.doc \notin given) =>
        /\ last'.ret = "False"
        /\ fs' = fs
        /\ dirty' = dirty
        /\ path' = path
        /\ config' = config
        /\ last'.cb = <<>>
    ]_vars

\* C5 witness: a dirty document that was never loaded nor given a target
\* has been saved without a target, and the save returned False.
C5_Witness ==
  /\ last.op = "save"
  /\ last.target = NoPath
  /\ last.doc \notin given
  /\ last.wasDirty
  /\ last.ret = "False"

\* C6: after bind, a line edit whose stripped name is a key of some section
\* is bound to the first expected section that contains the key, and shows
\* the value of that key (tb_some_hw_attr: hardware.some_hw_attr).
C6_FirstMatch ==
  (last.op \in BindOps /\ last.ok) =>
    \A w \in WidgetNames :
      LET k == SetupPath(w)
          s == FirstContaining(config[binderSetup], k)
          ls == widgets[w].listeners
      IN (IsLineEdit(w) /\ s # "") =>
           /\ ls # <<>>
           /\ ls[Len(ls)] = Listener(binderSetup, s, k)
           /\ widgets[w].text = GetAttr(config[binderSetup], s, k).val

\* No section of config c has an option named as widget w without its prefix
Miss(c, w) == FirstContaining(c, SetupPath(w)) = ""

\* C7: bind leaves an element whose stripped name is a key of no section
\* unbound: its text is as before, no slot is connected to it, and an edit
\* of it neither creates a key nor makes a document dirty.
C7_MissLeftUnbound ==
  [][ /\ (last'.op \in BindOps /\ last'.ok) =>
           \A w \in WidgetNames :
             Miss(config[binderSetup'], w) =>
               /\ widgets'[w].listeners = <<>>
               /\ widgets'[w].text = widgets[w].text
      /\ (last'.op = "edit" /\ binderSetup # NoDoc
            /\ Miss(config[binderSetup], last'.widget)) =>
           /\ config' = config
           /\ dirty' = dirty
    ]_vars

\* C8: bind shows, in a line edit bound to an existing key, the current
\* value of the key; and after an edit of the line edit to text t the
\* value of the key is t and the document is dirty.
C8_BindAndEdit ==
  [][ /\ (last'.op \in BindOps /\ last'.ok) =>
           \A w \in WidgetNames :
             LET ls == widgets'[w].listeners
                 l == ls[Len(ls)]
             IN (IsLineEdit(w) /\ ls # <<>>
                   /\ has_option(config'[l.doc], l.section, l.path)) =>
                  widgets'[w].text =
                    GetAttr(config'[l.doc], l.section, l.path).val
      /\ (last'.op = "edit") =>
           LET ls == widgets[last'.widget].listeners
           IN \A i \in 1..Len(ls) :
                has_option(config[ls[i].doc], ls[i].section, ls[i].path) =>
                  /\ GetAttr(config'[ls[i].doc], ls[i].section, ls[i].path)
                       = [raised |-> FALSE, val |-> last'.text]
                  /\ dirty'[ls[i].doc]
    ]_vars

\* The callback of document d was invoked during the last operation
CalledBack(l, d) == \E i \in 1..Len(l.cb) : l.cb[i].doc = d

\* C9: set_setup and every edit of an element leave every document other
\* than the bound one as it is: its values, its dirty flag, and its
\* callback is not invoked.
C9_RebindIsolation ==
  [][ (last'.op \in {"set_setup", "edit"}) =>
        \A a \in DocIds :
          a # binderSetup' =>
            /\ config'[a] = config[a]
            /\ dirty'[a] = dirty[a]
            /\ ~CalledBack(last', a)
    ]_vars

\* C9 witness: document 2 has replaced document 1 in the binder, and an
\* edit has since been written to document 2.
C9_Witness ==
  /\ last.op = "edit"
  /\ last.replaced = 1
  /\ binderSetup = 2
  /\ CalledBack(last, 2)
  /\ dirty[2]
  /\ ~dirty[1]

\* C10: when a fresh document has loaded the file that a save of document
\* D wrote, every key of the default schema, in either spelling of its
\* name, reads in it as it reads in D.
C10_RoundTrip ==
  (last.op = "load" /\ last.ok /\ last.wasFresh) =>
    \A d \in created \ {last.doc} :
      (path[d] = last.target /\ fs[last.target] = WriteFile(config[d])) =>
        \A s \in Sections, k \in Keys :
          <<s, optionxform(k)>> \in SchemaKeys =>
            GetAttr(config[last.doc], s, k) = GetAttr(config[d], s, k)

\* C11: every write through a section accessor completes without error,
\* and a read of the same key right after it returns the value written.
C11_WriteReadBack ==
  (last.op = "set") =>
    /\ last.ok
    /\ GetAttr(config[last.doc], last.sec, last.key) =
         [raised |-> FALSE, val |-> last.text]

\* C12: in every state, reading any key of any section of a document
\* returns a text without raising, the empty text when the section or the
\* key is absent.
C12_GetNeverFails ==
  \A d \in created, s \in Sections, k \in Keys :
    LET g == GetAttr(config[d], s, k)
    IN /\ ~g.raised
       /\ ~has_option(config[d], s, k) => g.val = EmptyText

\* C13: load_setup_file returns True when it succeeds and False when the
\* source is not an existing file.
C13_LoadReturnsBool ==
  (last.op = "load") =>
    /\ last.ok => last.ret = "True"
    /\ ~last.ok => last.ret = "False"

\* C14: a load of a source that does not exist changes nothing of the
\* document: its values, its dirty flag and its remembered location are as
\* before, and the callback is not invoked.
C14_FailedLoadChangesNothing ==
  [][ (last'.op = "load" /\ ~last'.ok) =>
        /\ config' = config
        /\ dirty' = dirty
        /\ path' = path
        /\ last'.cb = <<>>
    ]_vars

\* C14 witness: a load into a dirty document that remembers a location
\* has failed.
C14_Witness ==
  /\ last.op = "load"
  /\ ~last.ok
  /\ last.wasDirty
  /\ last.wasPath # NoPath
  /\ last.target # last.wasPath

\* C15: a save with a target always opens the target; while no save of the
\* document has failed, a save without a target writes the location of the
\* last successful load or save with a target (no file when there is none),
\* and the file written holds the document.
C15_EffectiveSavePath ==
  (last.op = "save") =>
    /\ last.target # NoPath => last.wrote = last.target
    /\ last.doc \notin failed =>
         /\ last.target = NoPath => last.wrote = recent[last.doc]
         /\ last.wrote # NoPath =>
              /\ last.ok
              /\ fs[last.wrote] = WriteFile(config[last.doc])
         /\ last.wrote = NoPath => ~last.ok

\* C15 witness: a save without a target has written the file p2.
C15_Witness ==
  /\ last.op = "save"
  /\ last.target = NoPath
  /\ last.doc \notin failed
  /\ last.ok
  /\ last.wrote = "p2"

\* C16: in every reachable state every expected section of every document
\* exists in its parser, and every key of the default schema exists in its
\* section.
C16_SchemaComplete ==
  \A d \in created :
    /\ \A i \in 1..Len(expected_sections) :
         has_section(config[d], expected_sections[i])
    /\ \A sk \in SchemaKeys : has_option(config[d], sk[1], sk[2])

\* C16 witness: a document has loaded a file that has no hardware section.
C16_Witness ==
  /\ last.op = "load"
  /\ last.ok
  /\ "hardware" \notin DOMAIN fs[last.target]
  /\ has_option(config[last.doc], "hardware", "some_hw_attr")

\* C17: a document just constructed reads back every default of
\* DEFAULT_SETUP (general.setup_name reads "New Setup"), is not dirty,
\* remembers no location, and its construction called no callback.
C17_ConstructDefaults ==
  (last.op = "construct") =>
    /\ \A sk \in SchemaKeys :
         GetAttr(config[last.doc], sk[1], sk[2]) =
           [raised |-> FALSE, val |-> DEFAULT_SETUP[sk[1]][sk[2]]]
    /\ GetAttr(config[last.doc], "general", "setup_name").val =
         <<"N", "e", "w", " ", "S", "e", "t", "u", "p">>
    /\ ~dirty[last.doc]
    /\ path[last.doc] = NoPath
    /\ last.cb = <<>>

\* C17 witness: a second document was constructed while the first one is
\* dirty.
C17_Witness ==
  /\ last.op = "construct"
  /\ last.doc = 2
  /\ dirty[1]

\* C18: the callback runs after the state has changed: a set calls it
\* exactly once, with the document dirty and the value written readable
\* through the section accessor; a successful load or save calls it with
\* the document clean.
C18_NotifyAfterChange ==
  /\ (last.op = "set") =>
       /\ Len(last.cb) = 1
       /\ last.cb[1].doc = last.doc
       /\ last.cb[1].dirty
       /\ GetAttr(last.cb[1].config, last.sec, last.key) =
            [raised |-> FALSE, val |-> last.text]
  /\ (last.op \in {"load", "save"} /\ last.ok) =>
       \A i \in 1..Len(last.cb) :
         last.cb[i].doc = last.doc /\ ~last.cb[i].dirty

\* C19: load_setup_file and save_setup_file call the callback exactly once
\* when they succeed, and not at all when they return False.
C19_CallbackIffSuccess ==
  (last.op \in {"load", "save"}) =>
    /\ last.ok => Len(last.cb) = 1 /\ last.cb[1].doc = last.doc
    /\ last.ret = "False" => last.cb = <<>>

\* C20: bind_widgets and set_setup change no value of the document they
\* bind, never make it dirty and never call its callback.
C20_BindingNeverDirties ==
  [][ (last'.op \in BindOps) =>
        /\ config'[binderSetup'] = config[binderSetup']
        /\ dirty'[binderSetup'] => dirty[binderSetup']
        /\ ~CalledBack(last', binderSetup')
    ]_vars

\* C21: every line edit carries at most one write-back listener, so that an
\* edit sets the document once (one callback) and emits value_changed once.
C21_OneListener ==
  /\ \A w \in WidgetNames :
       IsLineEdit(w) => Len(widgets[w].listeners) <= 1
  /\ (last.op = "edit" /\ widgets[last.widget].listeners # <<>>) =>
       /\ Len(last.cb) = 1
       /\ last.emits = 1

\* C22: after every handler of the main window the write-back listeners of
\* every element belong to logic.current_setup, so that an edit is written
\* to that setup only, and to no setup at all when there is none.
C22_ActiveIsBound ==
  ~last.crash =>
    /\ \A w \in WidgetNames :
         \A i \in 1..Len(widgets[w].listeners) :
           widgets[w].listeners[i].doc = current_setup
    /\ (last.op = "edit_field") =>
         \A i \in 1..Len(last.cb) : last.cb[i].doc = current_setup

\* C23: after every handler of the main window logic.current_setup is None
\* exactly when setup_list is empty, and is an element of setup_list
\* otherwise.
C23_OpenListConsistent ==
  ~last.crash =>
    /\ current_setup = NoDoc <=> setup_list = <<>>
    /\ current_setup # NoDoc => current_setup \in Range(setup_list)

\* C23 witness: close_setup has closed one of two open setups.
C23_Witness ==
  /\ last.op = "close_setup"
  /\ ~last.crash
  /\ Len(last.wasList) = 2
  /\ Len(setup_list) = 1
  /\ current_setup # last.wasCurrent

\* C24: a closeEvent that returns has accepted or ignored its event after
\* at most one close_setup call per open setup; it has accepted only with
\* setup_list empty; it has ignored exactly when the user declined a
\* question, which then was the last call, the setups not yet closed
\* staying open.
C24_CloseEvent ==
  (last.op = "closeEvent" /\ ~last.crash) =>
    /\ last.event \in {"accept", "ignore"}
    /\ last.calls <= Len(last.wasList)
    /\ last.event = "accept" => setup_list = <<>>
    /\ last.event = "ignore" <=>
         \E i \in 1..Len(last.asked) : ~last.asked[i].yes
    /\ \A i \in 1..Len(last.asked) :
         ~last.asked[i].yes =>
           /\ i = Len(last.asked)
           /\ Len(setup_list) = Len(last.wasList) - (last.calls - 1)
           /\ current_setup = last.asked[i].doc
           /\ current_setup \in Range(setup_list)

\* C24 witness: closeEvent has closed one setup and ignored its event when
\* the user declined to close the other one.
C24_Witness ==
  /\ last.op = "closeEvent"
  /\ ~last.crash
  /\ last.event = "ignore"
  /\ last.calls = 2
  /\ Len(setup_list) = 1

\* C25: a dirty setup leaves setup_list only after the user has confirmed
\* the question about it in that handler, a clean one leaves it unasked;
\* when the user declines in close_setup, setup_list, the current setup and
\* the binding of the elements stay as they are.
C25_DirtyNeedsConfirm ==
  [][ ~last'.crash =>
        /\ \A d \in Range(setup_list) \ Range(setup_list') :
             /\ dirty[d] =>
                  \E i \in 1..Len(last'.asked) :
                    last'.asked[i] = [doc |-> d, yes |-> TRUE]
             /\ ~dirty[d] =>
                  \A i \in 1..Len(last'.asked) : last'.asked[i].doc # d
        /\ (last'.op = "close_setup"
              /\ \E i \in 1..Len(last'.asked) : ~last'.asked[i].yes) =>
             /\ setup_list' = setup_list
             /\ current_setup' = current_setup
             /\ binderSetup' = binderSetup
             /\ widgets' = widgets
             /\ config' = config
        /\ (last'.op = "close_setup" /\ current_setup # NoDoc
              /\ ~dirty[current_setup]) =>
             /\ last'.asked = <<>>
             /\ current_setup \notin Range(setup_list')
    ]_vars

\* C25 witness: the user has declined to close a dirty setup.
C25_Witness ==
  /\ last.op = "close_setup"
  /\ ~last.crash
  /\ Len(last.asked) = 1
  /\ ~last.asked[1].yes
  /\ setup_list = last.wasList
  /\ current_setup # NoDoc
  /\ dirty[current_setup]

\* C26: no two setups of setup_list have the same path, unless it is None.
C26_NoFileOpenTwice ==
  ~last.crash =>
    \A i, j \in 1..Len(setup_list) :
      (i # j /\ path[setup_list[i]] # NoPath) =>
        path[setup_list[i]] # path[setup_list[j]]

====
